---- MODULE Spec2Model ----
(***************************************************************************)
(* Model of cobolt_python's session-orchestration core:                    *)
(*   - ChatHistory (chat_history.py): the SQLite-backed chat/message store *)
(*   - OllamaWorker (ollama_worker.py): the streaming inference session    *)
(*   - ChatWindow (cobolt_ui.py): a user turn and its commit to the store  *)
(*   - MCPClient (mcp_client.py, mcp_tools.py): the tool-server client     *)
(* Strings that the code concatenates or strips are sequences of           *)
(* one-character strings; opaque strings (titles, contents, roles) are     *)
(* TLA+ strings.                                                           *)
(***************************************************************************)
EXTENDS Integers, Sequences, FiniteSets, TLC

VARIABLES
    chats,          \* table chats, as its set of rows (id is the key)
    chat_messages,  \* table chat_messages, rows in rowid order
    next_id,        \* AUTOINCREMENT counter of chat_messages.id
    now,            \* CURRENT_TIMESTAMP, in whole seconds
    last,           \* the most recent ChatHistory call: arguments and outcome
    added,          \* per chat id: successful add_message calls since the table was last emptied
    purged,         \* chat ids for which delete_chat has been called since then
    pc,             \* OllamaWorker: where its thread stands in run()
    model,          \* OllamaWorker.model
    messages,       \* OllamaWorker.messages
    is_running,     \* OllamaWorker._is_running
    buffer,         \* OllamaWorker._buffer
    chunk,          \* run(): the loop variable
    exc,            \* run(): the exception caught, NoExc if none in this run
    emitted,        \* the signals the worker has emitted, in order
    received,       \* the fragments the gateway has yielded to this worker, in order
    runs,           \* how many times run() has been entered
    stop_pc,        \* the caller of stop(): "none", "wait" or "returned"
    stopped_at,     \* the run, the fragments received and the buffer when stop() cleared the flag
    requests,       \* how many chat requests the worker's client has sent to the gateway
    current_chat_id,\* ChatWindow.current_chat_id, NoChat while it is None
    ui_messages,    \* ChatWindow.messages
    message_saved,  \* whether ChatWindow has the attribute _message_saved
    workers,        \* the OllamaWorker objects send_message has created, in order; self.worker is the last
    posted,         \* the signals the workers have emitted to the window, in posting order
    handled,        \* how many of them the window's event loop has delivered to their slot
    commits,        \* the add_message calls of handle_complete_response that inserted a row
    turns,          \* per call of send_message, the chat its user message was written to
    mcp_servers,    \* mcp_tools.mcp_servers, the configured servers
    clients,        \* MCPClient.clients: per process, its server and its answer to listTools
    tool_cache,     \* MCPClient.tool_cache
    origin,         \* per entry of tool_cache, the server whose process reported the tool
    result,         \* what the last connect_to_servers call returned
    attempts,       \* the launches of that call: per configured server, its name and error
    tool_op,        \* the most recent operation on the registry or the client
    loaded,         \* the last load_config call: what it returned and the servers of the document it read
    orphans,        \* processes started whose Popen object clients.clear() dropped, none of them terminated
    call,           \* the connect_to_servers call in progress on the refresh thread: its position and locals
    reload          \* the load_config call in progress on the foreground thread: its position and locals

storeVars == <<chats, chat_messages, next_id, now, last, added, purged>>

sessionVars == <<pc, model, messages, is_running, buffer, chunk, exc,
                 emitted, received, runs, stop_pc, stopped_at, requests>>

uiVars == <<current_chat_id, ui_messages, message_saved, workers,
            posted, handled, commits, turns>>

toolVars == <<mcp_servers, clients, tool_cache, origin, result, attempts,
              tool_op, loaded, orphans, call, reload>>

vars == <<chats, chat_messages, next_id, now, last, added, purged,
          pc, model, messages, is_running, buffer, chunk, exc,
          emitted, received, runs, stop_pc, stopped_at, requests,
          current_chat_id, ui_messages, message_saved, workers,
          posted, handled, commits, turns,
          mcp_servers, clients, tool_cache, origin, result, attempts,
          tool_op, loaded, orphans, call, reload>>

----------------------------------------------------------------------------
(* Bounds of the model *)

MaxMsgs == 2        \* number of rows the AUTOINCREMENT counter may hand out
MaxTime == 1        \* last second the clock reaches
MaxLimit == 2       \* largest LIMIT argument tried
MaxChunks == 2      \* fragments the gateway yields to one worker object
MaxRuns == 2        \* times run() is entered on one worker object
MaxTurns == 2       \* messages sent from one chat window
MaxServers == 2     \* servers in one configuration document
MaxOrphans == 2     \* processes left behind by clients.clear()

(* Input domains *)
BlankId == <<" ">>
ChatIds == {<<"a">>, <<"b">>}
AnyIds == ChatIds \cup {BlankId}
Titles == {"New Chat", "T"}
Contents == {"x", "y"}
RolesIn == {"user", "system"}     \* one role of the closed set, one outside it
Limits == 0..MaxLimit

NULL == "NULL"      \* SQL NULL / Python None in a result column

Hel == <<"H", "e", "l">>
Lo == <<"l", "o">>
Fragments == {Hel, Lo}
Models == {<<>>, <<"m">>}
MessageLists == {<<>>, <<[role |-> "user", content |-> <<"h", "i">>]>>}
NoExc == <<>>
GatewayErrors == {<<"d", "o", "w", "n">>}

----------------------------------------------------------------------------
(* Helpers *)

Min(a, b) == IF a < b THEN a ELSE b

Range(s) == {s[i] : i \in 1..Len(s)}

RECURSIVE RowsNotOf(_, _)
\* rows of s whose chat_id differs from cid, order kept (DELETE ... WHERE)
RowsNotOf(s, cid) ==
    IF s = <<>> THEN <<>>
    ELSE IF Head(s).chat_id = cid THEN RowsNotOf(Tail(s), cid)
         ELSE <<Head(s)>> \o RowsNotOf(Tail(s), cid)

RECURSIVE Strip(_)
\* str.strip(): drops leading and trailing whitespace
Strip(s) ==
    IF s = <<>> THEN <<>>
    ELSE IF Head(s) = " " THEN Strip(Tail(s))
    ELSE IF s[Len(s)] = " " THEN Strip(SubSeq(s, 1, Len(s) - 1))
    ELSE s

\* all orders of the rows in S
Perms(S) ==
    {p \in [1..Cardinality(S) -> S] : \A x \in S : \E i \in 1..Cardinality(S) : p[i] = x}

\* SQL LIMIT n: a negative n means no limit
Take(s, n) == IF n < 0 THEN s ELSE SubSeq(s, 1, Min(n, Len(s)))

----------------------------------------------------------------------------
(* ChatHistory: schema and connection (chat_history.py) *)

\* _get_connection opens a plain sqlite3 connection and never issues
\* PRAGMA foreign_keys = ON, so SQLite leaves foreign-key enforcement off:
\* the FOREIGN KEY ... ON DELETE CASCADE clause of the schema is parsed
\* but not applied.
ForeignKeysEnabled == FALSE

\* role TEXT CHECK(role IN ('user', 'assistant', 'tool'))
RoleCheck(role) == role \in {"user", "assistant", "tool"}

\* add_message without its role check
ValidRoleAny(role) == TRUE

\* the Python-side list in add_message: role not in ['user', 'assistant', 'tool']
ValidRole(role) == role \in {"user", "assistant", "tool"}

\* not chat_id.strip()
IsBlank(chat_id) == Strip(chat_id) = <<>>

ChatExists(chat_id) == \E c \in chats : c.id = chat_id

\* a chats table without its key
NoPrimaryKey(chat_id) == FALSE

\* id TEXT PRIMARY KEY: an INSERT of an id the table holds is rejected
PrimaryKeyConflict(chat_id) == ChatExists(chat_id)

MessagesOf(chat_id) == {m \in Range(chat_messages) : m.chat_id = chat_id}

\* the outcome record of a call; fields a call does not use keep these values
Call(op, chat_id) ==
    [op |-> op, chat_id |-> chat_id, role |-> "", limit |-> 0,
     err |-> "", ok |-> TRUE, rows |-> <<>>]

----------------------------------------------------------------------------
(* ChatHistory: queries *)

\* the rows of one chat without the ORDER BY
MessagesUnordered(chat_id) == Perms(MessagesOf(chat_id))

\* ORDER BY timestamp ASC over the rows of one chat: rows with equal
\* timestamps may come in any order (SQL leaves ties unspecified)
MessagesAscending(chat_id) ==
    {p \in Perms(MessagesOf(chat_id)) :
        \A i, j \in DOMAIN p : i < j => p[i].timestamp <= p[j].timestamp}

\* ORDER BY created_at ASC
ChatsAscending ==
    {p \in Perms(chats) :
        \A i, j \in DOMAIN p : i < j => p[i].created_at <= p[j].created_at}

\* ORDER BY created_at DESC over chats
ChatsDescending ==
    {p \in Perms(chats) :
        \A i, j \in DOMAIN p : i < j => p[i].created_at >= p[j].created_at}

\* (SELECT content FROM chat_messages WHERE chat_id = c.id
\*  ORDER BY timestamp DESC LIMIT 1): NULL without rows, otherwise the
\* content of a row with the greatest timestamp
LastMessageChoices(chat_id) ==
    IF MessagesOf(chat_id) = {} THEN {NULL}
    ELSE {m.content : m \in {x \in MessagesOf(chat_id) :
                \A y \in MessagesOf(chat_id) : y.timestamp <= x.timestamp}}

\* one result row per listed chat: c.* and the last_message column
RecentRows(top, pick) ==
    [i \in 1..Len(top) |->
        [id |-> top[i].id, title |-> top[i].title,
         created_at |-> top[i].created_at, last_message |-> pick[i]]]

\* the possible results of get_recent_chats(limit)
RecentChatsResults(limit) ==
    UNION {
        {RecentRows(Take(p, limit), pick) :
            pick \in {f \in [1..Len(Take(p, limit)) -> Contents \cup {NULL}] :
                        \A i \in 1..Len(Take(p, limit)) :
                            f[i] \in LastMessageChoices(p[i].id)}}
        : p \in ChatsDescending}

\* the possible results of get_messages(chat_id, limit) for a non-blank id
MessagesResults(chat_id, limit) ==
    {Take(p, limit) : p \in MessagesAscending(chat_id)}

----------------------------------------------------------------------------
(* ChatHistory: operations, each one call in its own transaction *)

StoreInit ==
    /\ chats = {}
    /\ chat_messages = <<>>
    /\ next_id = 1
    /\ now = 0
    /\ last = Call("init", <<>>)
    /\ added = [c \in ChatIds |-> 0]
    /\ purged = {}

\* the wall clock moves on to the next second
Tick ==
    /\ now < MaxTime
    /\ now' = now + 1
    /\ UNCHANGED <<chats, chat_messages, next_id, last, added, purged>>
    /\ UNCHANGED <<sessionVars, uiVars, toolVars>>

\* INSERT INTO chats (id, title): the PRIMARY KEY rejects a second row
\* with the same id (sqlite3.IntegrityError leaves the table as it was)
CreateChat(chat_id, title) ==
    /\ IF PrimaryKeyConflict(chat_id)
       THEN /\ last' = [Call("create_chat", chat_id) EXCEPT
                            !.err = "IntegrityError", !.ok = FALSE]
            /\ UNCHANGED chats
       ELSE /\ chats' = chats \cup
                    {[id |-> chat_id, title |-> title, created_at |-> now]}
            /\ last' = Call("create_chat", chat_id)
    /\ UNCHANGED <<chat_messages, next_id, now, added, purged>>
    /\ UNCHANGED <<sessionVars, uiVars, toolVars>>

\* SELECT * FROM chats WHERE id = ?
GetChat(chat_id) ==
    /\ last' = [Call("get_chat", chat_id) EXCEPT
                    !.rows = IF ChatExists(chat_id)
                             THEN <<CHOOSE c \in chats : c.id = chat_id>>
                             ELSE <<>>]
    /\ UNCHANGED <<chats, chat_messages, next_id, now, added, purged>>
    /\ UNCHANGED <<sessionVars, uiVars, toolVars>>

GetRecentChats(limit) ==
    /\ \E r \in RecentChatsResults(limit) :
            last' = [Call("get_recent_chats", <<>>) EXCEPT
                        !.limit = limit, !.rows = r]
    /\ UNCHANGED <<chats, chat_messages, next_id, now, added, purged>>
    /\ UNCHANGED <<sessionVars, uiVars, toolVars>>

\* UPDATE chats SET title = ? WHERE id = ?; returns rowcount > 0
UpdateChatTitle(chat_id, title) ==
    /\ chats' = {IF c.id = chat_id THEN [c EXCEPT !.title = title] ELSE c :
                    c \in chats}
    /\ last' = [Call("update_chat_title", chat_id) EXCEPT
                    !.ok = ChatExists(chat_id)]
    /\ UNCHANGED <<chat_messages, next_id, now, added, purged>>
    /\ UNCHANGED <<sessionVars, uiVars, toolVars>>

\* DELETE FROM chats WHERE id = ?; the messages go only if the connection
\* enforces the schema's ON DELETE CASCADE
DeleteChat(chat_id) ==
    /\ chats' = {c \in chats : c.id # chat_id}
    /\ chat_messages' = IF ForeignKeysEnabled /\ ChatExists(chat_id)
                        THEN RowsNotOf(chat_messages, chat_id)
                        ELSE chat_messages
    /\ last' = [Call("delete_chat", chat_id) EXCEPT !.ok = ChatExists(chat_id)]
    /\ purged' = purged \cup ({chat_id} \cap ChatIds)
    /\ added' = [c \in ChatIds |-> IF c = chat_id THEN 0 ELSE added[c]]
    /\ UNCHANGED <<next_id, now>>
    /\ UNCHANGED <<sessionVars, uiVars, toolVars>>

\* what add_message raises, "" when the row is inserted: the Python checks
\* in source order, then the constraints of the INSERT
AddMessageError(chat_id, role) ==
    IF IsBlank(chat_id) THEN "InvalidChatId"
    ELSE IF ~ValidRole(role) THEN "InvalidRole"
    ELSE IF ~RoleCheck(role) THEN "IntegrityError"
    ELSE IF ForeignKeysEnabled /\ ~ChatExists(chat_id) THEN "IntegrityError"
    ELSE ""

\* an add_message that writes over the table (INSERT OR REPLACE on one key)
AddMessageOverwriting(chat_id, role, content) ==
    /\ next_id <= MaxMsgs
    /\ chat_messages' = <<[id |-> next_id, chat_id |-> chat_id, role |-> role,
                           content |-> content, timestamp |-> now]>>
    /\ next_id' = next_id + 1
    /\ last' = [Call("add_message", chat_id) EXCEPT !.role = role]
    /\ UNCHANGED <<chats, now, added, purged>>
    /\ UNCHANGED <<sessionVars, uiVars, toolVars>>

AddMessage(chat_id, role, content) ==
    /\ IF AddMessageError(chat_id, role) # ""
       THEN /\ last' = [Call("add_message", chat_id) EXCEPT
                            !.role = role, !.ok = FALSE,
                            !.err = AddMessageError(chat_id, role)]
            /\ UNCHANGED <<chat_messages, next_id, added>>
       ELSE /\ next_id <= MaxMsgs
            /\ chat_messages' = Append(chat_messages,
                    [id |-> next_id, chat_id |-> chat_id, role |-> role,
                     content |-> content, timestamp |-> now])
            /\ next_id' = next_id + 1
            /\ last' = [Call("add_message", chat_id) EXCEPT !.role = role]
            /\ added' = [c \in ChatIds |->
                            IF c = chat_id /\ c \notin purged
                            THEN added[c] + 1 ELSE added[c]]
    /\ UNCHANGED <<chats, now, purged>>
    /\ UNCHANGED <<sessionVars, uiVars, toolVars>>

GetMessages(chat_id, limit) ==
    /\ IF IsBlank(chat_id)
       THEN last' = [Call("get_messages", chat_id) EXCEPT
                        !.limit = limit, !.ok = FALSE, !.err = "InvalidChatId"]
       ELSE \E r \in MessagesResults(chat_id, limit) :
                last' = [Call("get_messages", chat_id) EXCEPT
                            !.limit = limit, !.rows = r]
    /\ UNCHANGED <<chats, chat_messages, next_id, now, added, purged>>
    /\ UNCHANGED <<sessionVars, uiVars, toolVars>>

\* DELETE FROM chat_messages; DELETE FROM chats
ClearAll ==
    /\ chat_messages' = <<>>
    /\ chats' = {}
    /\ last' = Call("clear_all", <<>>)
    /\ added' = [c \in ChatIds |-> 0]
    /\ purged' = {}
    /\ UNCHANGED <<next_id, now>>
    /\ UNCHANGED <<sessionVars, uiVars, toolVars>>

StoreNext ==
    \/ Tick
    \/ \E c \in ChatIds, t \in Titles : CreateChat(c, t)
    \/ \E c \in ChatIds : GetChat(c)
    \/ \E n \in Limits : GetRecentChats(n)
    \/ \E c \in ChatIds, t \in Titles : UpdateChatTitle(c, t)
    \/ \E c \in ChatIds : DeleteChat(c)
    \/ \E c \in AnyIds, r \in RolesIn, x \in Contents : AddMessage(c, r, x)
    \/ \E c \in AnyIds, n \in Limits : GetMessages(c, n)
    \/ ClearAll

----------------------------------------------------------------------------
(* OllamaClient.chat_stream and OllamaWorker (ollama_client.py, ollama_worker.py) *)

RECURSIVE Concat(_)
\* the fragments of a sequence joined in order
Concat(fs) == IF fs = <<>> THEN <<>> ELSE Head(fs) \o Concat(Tail(fs))

\* if not model
InvalidRequestModelOnly(m, msgs) == m = <<>>

\* chat_stream: if not model or not messages
InvalidRequest(m, msgs) == m = <<>> \/ msgs = <<>>

\* str(ValueError("model and messages are required"))
RequiredMsg == <<"r", "e", "q">>

\* self._buffer = chunk
AccumulateDelta(buf, c) == c

\* self._buffer += chunk
Accumulate(buf, c) == buf \o c

Signal(sig, payload) == [sig |-> sig, payload |-> payload]

SessionInit ==
    /\ pc = "unborn"
    /\ model = <<>>
    /\ messages = <<>>
    /\ is_running = FALSE
    /\ buffer = <<>>
    /\ chunk = <<>>
    /\ exc = NoExc
    /\ emitted = <<>>
    /\ received = <<>>
    /\ runs = 0
    /\ stop_pc = "none"
    /\ stopped_at = [run |-> 0, received |-> 0, buffer |-> <<>>]
    /\ requests = 0

\* OllamaWorker.__init__
Construct(m, msgs) ==
    /\ pc = "unborn"
    /\ pc' = "idle"
    /\ model' = m
    /\ messages' = msgs
    /\ is_running' = TRUE
    /\ buffer' = <<>>
    /\ UNCHANGED <<chunk, exc, emitted, received, runs, stop_pc, stopped_at, requests>>
    /\ UNCHANGED <<storeVars, uiVars, toolVars>>

\* QThread.start(): run() is entered on the worker's thread
Start ==
    /\ pc = "idle"
    /\ runs < MaxRuns
    /\ pc' = "open"
    /\ runs' = runs + 1
    /\ exc' = NoExc
    /\ UNCHANGED <<model, messages, is_running, buffer, chunk, emitted,
                   received, stop_pc, stopped_at, requests>>
    /\ UNCHANGED <<storeVars, uiVars, toolVars>>

\* QThread.start() on a worker whose thread has finished: run() is entered
\* again on the same object, with _is_running and _buffer as they are
Restart ==
    /\ pc = "done"
    /\ runs < MaxRuns
    /\ pc' = "open"
    /\ runs' = runs + 1
    /\ exc' = NoExc
    /\ UNCHANGED <<model, messages, is_running, buffer, chunk, emitted,
                   received, stop_pc, stopped_at, requests>>
    /\ UNCHANGED <<storeVars, uiVars, toolVars>>

\* the generator raises on its first step when the request is invalid
StreamRejects ==
    /\ pc = "open"
    /\ InvalidRequest(model, messages)
    /\ exc' = RequiredMsg
    /\ pc' = "except"
    /\ UNCHANGED <<model, messages, is_running, buffer, chunk, emitted,
                   received, runs, stop_pc, stopped_at, requests>>
    /\ UNCHANGED <<storeVars, uiVars, toolVars>>

\* response = self.client.chat(model=..., messages=..., stream=True)
StreamOpens ==
    /\ pc = "open"
    /\ ~InvalidRequest(model, messages)
    /\ requests' = requests + 1
    /\ pc' = "next"
    /\ UNCHANGED <<model, messages, is_running, buffer, chunk, exc, emitted,
                   received, runs, stop_pc, stopped_at>>
    /\ UNCHANGED <<storeVars, uiVars, toolVars>>

\* the gateway yields the next fragment
StreamYields(f) ==
    /\ pc = "next"
    /\ ~InvalidRequest(model, messages)
    /\ Len(received) < MaxChunks
    /\ chunk' = f
    /\ received' = Append(received, f)
    /\ pc' = "check"
    /\ UNCHANGED <<model, messages, is_running, buffer, exc, emitted,
                   runs, stop_pc, stopped_at, requests>>
    /\ UNCHANGED <<storeVars, uiVars, toolVars>>

\* the gateway's stream is exhausted: the for loop ends
StreamEnds ==
    /\ pc = "next"
    /\ ~InvalidRequest(model, messages)
    /\ pc' = "final"
    /\ UNCHANGED <<model, messages, is_running, buffer, chunk, exc, emitted,
                   received, runs, stop_pc, stopped_at, requests>>
    /\ UNCHANGED <<storeVars, uiVars, toolVars>>

\* the gateway raises (connection lost, server error)
StreamRaises(e) ==
    /\ pc = "next"
    /\ ~InvalidRequest(model, messages)
    /\ exc' = e
    /\ pc' = "except"
    /\ UNCHANGED <<model, messages, is_running, buffer, chunk, emitted,
                   received, runs, stop_pc, stopped_at, requests>>
    /\ UNCHANGED <<storeVars, uiVars, toolVars>>

\* a loop without its test of the flag
CheckChunkIgnoringFlag ==
    /\ pc = "check"
    /\ pc' = "append"
    /\ UNCHANGED <<model, messages, is_running, buffer, chunk, exc, emitted,
                   received, runs, stop_pc, stopped_at, requests>>
    /\ UNCHANGED <<storeVars, uiVars, toolVars>>

\* if not self._is_running: break
CheckChunk ==
    /\ pc = "check"
    /\ pc' = IF is_running THEN "append" ELSE "final"
    /\ UNCHANGED <<model, messages, is_running, buffer, chunk, exc, emitted,
                   received, runs, stop_pc, stopped_at, requests>>
    /\ UNCHANGED <<storeVars, uiVars, toolVars>>

\* self._buffer += chunk; self.response_received.emit(self._buffer)
AppendAndEmit ==
    /\ pc = "append"
    /\ buffer' = Accumulate(buffer, chunk)
    /\ emitted' = Append(emitted, Signal("response_received", buffer'))
    /\ pc' = "next"
    /\ UNCHANGED <<model, messages, is_running, chunk, exc, received, runs,
                   stop_pc, stopped_at, requests>>
    /\ UNCHANGED <<storeVars, uiVars, toolVars>>

\* if self._is_running: (after the loop)
CheckComplete ==
    /\ pc = "final"
    /\ pc' = IF is_running THEN "complete" ELSE "done"
    /\ UNCHANGED <<model, messages, is_running, buffer, chunk, exc, emitted,
                   received, runs, stop_pc, stopped_at, requests>>
    /\ UNCHANGED <<storeVars, uiVars, toolVars>>

\* self.response_complete.emit(self._buffer)
EmitComplete ==
    /\ pc = "complete"
    /\ emitted' = Append(emitted, Signal("response_complete", buffer))
    /\ pc' = "done"
    /\ UNCHANGED <<model, messages, is_running, buffer, chunk, exc, received,
                   runs, stop_pc, stopped_at, requests>>
    /\ UNCHANGED <<storeVars, uiVars, toolVars>>

\* except Exception as exc: if self._is_running:
CheckError ==
    /\ pc = "except"
    /\ pc' = IF is_running THEN "error" ELSE "done"
    /\ UNCHANGED <<model, messages, is_running, buffer, chunk, exc, emitted,
                   received, runs, stop_pc, stopped_at, requests>>
    /\ UNCHANGED <<storeVars, uiVars, toolVars>>

\* self.error_occurred.emit(str(exc))
EmitError ==
    /\ pc = "error"
    /\ emitted' = Append(emitted, Signal("error_occurred", exc))
    /\ pc' = "done"
    /\ UNCHANGED <<model, messages, is_running, buffer, chunk, exc, received,
                   runs, stop_pc, stopped_at, requests>>
    /\ UNCHANGED <<storeVars, uiVars, toolVars>>

\* stop(), first statement: self._is_running = False
Stop ==
    /\ pc # "unborn"
    /\ stop_pc = "none"
    /\ is_running' = FALSE
    /\ stop_pc' = "wait"
    /\ stopped_at' = [run |-> runs, received |-> Len(received),
                      buffer |-> buffer]
    /\ UNCHANGED <<pc, model, messages, buffer, chunk, exc, emitted,
                   received, runs, requests>>
    /\ UNCHANGED <<storeVars, uiVars, toolVars>>

\* stop(), second statement: self.wait() returns once the thread is not running
StopReturns ==
    /\ stop_pc = "wait"
    /\ pc \in {"idle", "done"}
    /\ stop_pc' = "returned"
    /\ UNCHANGED <<pc, model, messages, is_running, buffer, chunk, exc,
                   emitted, received, runs, stopped_at, requests>>
    /\ UNCHANGED <<storeVars, uiVars, toolVars>>

SessionNext ==
    \/ \E m \in Models, msgs \in MessageLists : Construct(m, msgs)
    \/ Start
    \/ Restart
    \/ StreamRejects
    \/ StreamOpens
    \/ \E f \in Fragments : StreamYields(f)
    \/ StreamEnds
    \/ \E e \in GatewayErrors : StreamRaises(e)
    \/ CheckChunk
    \/ AppendAndEmit
    \/ CheckComplete
    \/ EmitComplete
    \/ CheckError
    \/ EmitError
    \/ Stop
    \/ StopReturns

----------------------------------------------------------------------------
(* ChatWindow (cobolt_ui.py): one user turn, from send_message to the slots *)
(* that the worker's signals reach. The window's store calls are taken to  *)
(* behave as ChatHistory's; the window never calls OllamaWorker.stop().    *)

\* self.current_chat_id = None
NoChat == <<>>

\* the "Thinking..." placeholder
Thinking == <<"T", "h", "i", "n", "k", "i", "n", "g", ".", ".", ".">>

\* what the user has typed into message_input
UserTexts == {<<" ">>, <<"h", "i">>}

\* user_message[:30] + "..." if len(user_message) > 30 else user_message
TitleOf(um) ==
    IF Len(um) > 30 THEN SubSeq(um, 1, 30) \o <<".", ".", ".">> ELSE um

\* the row an INSERT INTO chat_messages adds
MessageRow(chat_id, role, content) ==
    [id |-> next_id, chat_id |-> chat_id, role |-> role,
     content |-> content, timestamp |-> now]

AddedAfter(chat_id) ==
    [c \in ChatIds |->
        IF c = chat_id /\ c \notin purged THEN added[c] + 1 ELSE added[c]]

\* OllamaWorker.__init__ followed by start(): run() is about to open the stream
NewWorker(m, msgs) ==
    [pc |-> "open", model |-> m, messages |-> msgs, is_running |-> TRUE,
     buffer |-> <<>>, exc |-> NoExc, received |-> <<>>, requests |-> 0]

Stepped(w, out) == [w |-> w, out |-> out]

\* the loop body for one fragment: the liveness check, then append and emit
Yielded(w, f) ==
    IF w.is_running
    THEN Stepped([w EXCEPT !.received = Append(@, f),
                           !.buffer = Accumulate(@, f)],
                 <<Signal("response_received", Accumulate(w.buffer, f))>>)
    ELSE Stepped([w EXCEPT !.received = Append(@, f), !.pc = "done"], <<>>)

\* the stream is exhausted: if self._is_running: response_complete.emit
Ended(w) ==
    Stepped([w EXCEPT !.pc = "done"],
            IF w.is_running THEN <<Signal("response_complete", w.buffer)>>
            ELSE <<>>)

\* except Exception: pass
RaisedSilently(w, e) == Stepped([w EXCEPT !.pc = "done", !.exc = e], <<>>)

\* except Exception as exc: if self._is_running: error_occurred.emit(str(exc))
Raised(w, e) ==
    Stepped([w EXCEPT !.pc = "done", !.exc = e],
            IF w.is_running THEN <<Signal("error_occurred", e)>> ELSE <<>>)

\* what one step of run() can do to a worker whose flag no other thread
\* writes: open the stream, take one of the fragments F the gateway has
\* for it, end, or fail
WorkerSteps(w, F) ==
    IF w.pc = "open"
    THEN IF InvalidRequest(w.model, w.messages)
         THEN {Raised(w, RequiredMsg)}
         ELSE {Stepped([w EXCEPT !.requests = @ + 1, !.pc = "next"], <<>>)}
    ELSE IF w.pc = "next"
    THEN {Yielded(w, f) :
            f \in IF Len(w.received) < MaxChunks THEN F ELSE {}}
         \cup {Ended(w)}
         \cup {Raised(w, e) : e \in GatewayErrors}
    ELSE {}

\* if self.messages and self.messages[-1].get("content") == "Thinking...": pop
PopThinking(ms) ==
    IF ms # <<>> /\ ms[Len(ms)].content = Thinking
    THEN SubSeq(ms, 1, Len(ms) - 1) ELSE ms

\* handle_ollama_response: the assistant entry is replaced or appended
ShowResponse(ms, response) ==
    LET kept == PopThinking(ms)
    IN  IF kept # <<>> /\ kept[Len(kept)].role = "assistant"
        THEN [kept EXCEPT ![Len(kept)].content = response]
        ELSE Append(kept, [role |-> "assistant", content |-> response])

\* handle_complete_response: the last entry is overwritten if it is the assistant's
ShowComplete(ms, response) ==
    IF ms # <<>> /\ ms[Len(ms)].role = "assistant"
    THEN [ms EXCEPT ![Len(ms)].content = response] ELSE ms

UiInit ==
    /\ current_chat_id = NoChat
    /\ ui_messages = <<>>
    /\ message_saved = FALSE
    /\ workers = <<>>
    /\ posted = <<>>
    /\ handled = 0
    /\ commits = <<>>
    /\ turns = <<>>

\* ChatWindow.__init__: load_or_create_chat() creates a chat under a new
\* uuid c
OpenWindow(c) ==
    /\ current_chat_id = NoChat
    /\ ~ChatExists(c)
    /\ current_chat_id' = c
    /\ chats' = chats \cup {[id |-> c, title |-> "New Chat", created_at |-> now]}
    /\ last' = Call("create_chat", c)
    /\ ui_messages' = <<>>
    /\ UNCHANGED <<chat_messages, next_id, now, added, purged>>
    /\ UNCHANGED <<message_saved, workers, posted, handled, commits, turns>>
    /\ UNCHANGED <<sessionVars, toolVars>>

\* get_messages(chat_id) without its limit argument
DefaultLimit == 100

\* not chat.title or chat.title == 'New Chat'; a title taken from a message
\* is a sequence of characters, the default one a string
IsDefaultTitle(title) == ToString(title) \in {ToString(""), ToString("New Chat")}

\* new_chat: the chat shown gets its first user message as title if it
\* still has the default one, then a chat is created under a new uuid c
\* and shown
NewChat(c) ==
    /\ current_chat_id # NoChat
    /\ ~ChatExists(c)
    /\ LET users == SelectSeq(ui_messages, LAMBDA m : m.role = "user")
           retitle == /\ ui_messages # <<>>
                      /\ users # <<>>
                      /\ \E x \in chats : /\ x.id = current_chat_id
                                          /\ IsDefaultTitle(x.title)
           titled == IF retitle
                     THEN {IF x.id = current_chat_id
                           THEN [x EXCEPT !.title = TitleOf(users[1].content)]
                           ELSE x : x \in chats}
                     ELSE chats
       IN  chats' = titled \cup
                {[id |-> c, title |-> "New Chat", created_at |-> now]}
    /\ current_chat_id' = c
    /\ ui_messages' = <<>>
    /\ last' = Call("create_chat", c)
    /\ UNCHANGED <<chat_messages, next_id, now, added, purged>>
    /\ UNCHANGED <<message_saved, workers, posted, handled, commits, turns>>
    /\ UNCHANGED <<sessionVars, toolVars>>

\* on_chat_selected(c) for a chat c of the sidebar that is not the one
\* shown: load_or_create_chat(c) shows c and its stored messages
OnChatSelected(c) ==
    /\ current_chat_id # NoChat
    /\ c # current_chat_id
    /\ ChatExists(c)
    /\ current_chat_id' = c
    /\ \E r \in MessagesResults(c, DefaultLimit) :
            ui_messages' = [i \in 1..Len(r) |->
                                [role |-> r[i].role, content |-> r[i].content]]
    /\ last' = [Call("get_chat", c) EXCEPT
                    !.rows = <<CHOOSE x \in chats : x.id = c>>]
    /\ UNCHANGED <<chats, chat_messages, next_id, now, added, purged>>
    /\ UNCHANGED <<message_saved, workers, posted, handled, commits, turns>>
    /\ UNCHANGED <<sessionVars, toolVars>>

\* send_message with the model m selected and text typed
SendMessage(m, text) ==
    /\ current_chat_id # NoChat
    /\ m # <<>>
    /\ Strip(text) # <<>>
    /\ Len(workers) < MaxTurns
    /\ AddMessageError(current_chat_id, "user") = ""
    /\ LET user_message == Strip(text)
           withUser == Append(ui_messages,
                              [role |-> "user", content |-> user_message])
       IN  /\ message_saved' = FALSE
           /\ chats' = IF ui_messages = <<>>
                       THEN {IF c.id = current_chat_id
                             THEN [c EXCEPT !.title = TitleOf(user_message)]
                             ELSE c : c \in chats}
                       ELSE chats
           /\ chat_messages' = Append(chat_messages,
                    MessageRow(current_chat_id, "user", user_message))
           /\ ui_messages' = Append(withUser,
                    [role |-> "assistant", content |-> Thinking])
           /\ workers' = Append(workers, NewWorker(m, withUser))
    /\ next_id' = next_id + 1
    /\ added' = AddedAfter(current_chat_id)
    /\ last' = [Call("add_message", current_chat_id) EXCEPT !.role = "user"]
    /\ UNCHANGED <<now, purged>>
    /\ turns' = Append(turns, current_chat_id)
    /\ UNCHANGED <<current_chat_id, posted, handled, commits>>
    /\ UNCHANGED <<sessionVars, toolVars>>

\* the thread of worker t takes a step of run(), the gateway having the
\* fragments F for it; what it emits is posted to the window's event queue
WorkerStep(t, F) ==
    /\ t \in 1..Len(workers)
    /\ \E r \in WorkerSteps(workers[t], F) :
        /\ workers' = [workers EXCEPT ![t] = r.w]
        /\ posted' = posted \o
                [i \in 1..Len(r.out) |->
                    [w |-> t, sig |-> r.out[i].sig, payload |-> r.out[i].payload]]
    /\ UNCHANGED <<current_chat_id, ui_messages, message_saved, handled,
                   commits, turns>>
    /\ UNCHANGED <<storeVars, sessionVars, toolVars>>

\* the body of handle_complete_response, called for a signal of worker w
HandleCompleteResponse(w, response) ==
    IF current_chat_id # NoChat /\ ~message_saved
    THEN /\ ui_messages' = ShowComplete(ui_messages, response)
         /\ IF AddMessageError(current_chat_id, "assistant") = ""
            THEN /\ chat_messages' = Append(chat_messages,
                        MessageRow(current_chat_id, "assistant", response))
                 /\ next_id' = next_id + 1
                 /\ added' = AddedAfter(current_chat_id)
                 /\ last' = [Call("add_message", current_chat_id) EXCEPT
                                !.role = "assistant"]
                 /\ commits' = Append(commits, [w |-> w, id |-> next_id])
                 /\ message_saved' = TRUE
            ELSE /\ last' = [Call("add_message", current_chat_id) EXCEPT
                                !.role = "assistant", !.ok = FALSE,
                                !.err = AddMessageError(current_chat_id,
                                                        "assistant")]
                 /\ UNCHANGED <<chat_messages, next_id, added, commits,
                                message_saved>>
    ELSE UNCHANGED <<ui_messages, chat_messages, next_id, added, last,
                     commits, message_saved>>

\* the event loop delivers the oldest pending response_received
DeliverResponse ==
    /\ handled < Len(posted)
    /\ posted[handled + 1].sig = "response_received"
    /\ handled' = handled + 1
    /\ ui_messages' = ShowResponse(ui_messages, posted[handled + 1].payload)
    /\ UNCHANGED <<current_chat_id, message_saved, workers, posted, commits,
                   turns>>
    /\ UNCHANGED <<storeVars, sessionVars, toolVars>>

\* the event loop delivers the oldest pending response_complete
DeliverComplete ==
    /\ handled < Len(posted)
    /\ posted[handled + 1].sig = "response_complete"
    /\ handled' = handled + 1
    /\ HandleCompleteResponse(posted[handled + 1].w, posted[handled + 1].payload)
    /\ UNCHANGED <<chats, now, purged>>
    /\ UNCHANGED <<current_chat_id, workers, posted, turns>>
    /\ UNCHANGED <<sessionVars, toolVars>>

\* the event loop delivers the oldest pending error_occurred:
\* handle_ollama_error drops the placeholder and reports the error
DeliverError ==
    /\ handled < Len(posted)
    /\ posted[handled + 1].sig = "error_occurred"
    /\ handled' = handled + 1
    /\ ui_messages' = PopThinking(ui_messages)
    /\ UNCHANGED <<current_chat_id, message_saved, workers, posted, commits,
                   turns>>
    /\ UNCHANGED <<storeVars, sessionVars, toolVars>>

\* handle_complete_response is called once more for a response_complete of
\* self.worker that has been delivered before
CompleteAgain ==
    /\ \E i \in 1..handled :
        /\ posted[i].sig = "response_complete"
        /\ posted[i].w = Len(workers)
        /\ HandleCompleteResponse(posted[i].w, posted[i].payload)
    /\ UNCHANGED <<chats, now, purged>>
    /\ UNCHANGED <<current_chat_id, workers, posted, handled, turns>>
    /\ UNCHANGED <<sessionVars, toolVars>>

UiNext ==
    \/ \E c \in ChatIds : OpenWindow(c)
    \/ \E m \in Models, text \in UserTexts : SendMessage(m, text)
    \/ \E t \in 1..MaxTurns : WorkerStep(t, Fragments)
    \/ DeliverResponse
    \/ DeliverComplete
    \/ DeliverError
    \/ CompleteAgain

----------------------------------------------------------------------------
(* The server registry and MCPClient (mcp_tools.py, mcp_client.py) *)

ServerNames == {"s1", "s2", "s3"}

\* the registries load_config can build: the names are the keys of a JSON
\* object, so no name occurs twice
Configs ==
    UNION {{c \in [1..n -> ServerNames] :
                \A i, j \in 1..n : c[i] = c[j] => i = j} : n \in 0..MaxServers}

\* str(exc) of a failed Popen, "" when the process was started
LaunchOutcomes == {"", "ENOENT"}

\* the entries of a "tools" list: one with both fields, one with both in
\* another server's words, one without a name
ToolA == [name |-> "ta", description |-> "da"]
ToolB == [name |-> "tb", description |-> "db"]
ToolAnon == [description |-> "dc"]

\* more entries: one without a description, a JSON string where an object
\* is expected, and an object whose name is the JSON number 5. A value
\* that is not a JSON string is written as its JSON text; no string of
\* the model is made of digits.
ToolNoDesc == [name |-> "tc"]
NotADict == [scalar |-> "x"]
ToolNumbered == [name |-> "5", description |-> "da"]
NonStrings == {"5"}

\* what a process puts on its stdout after listTools, within the read bound:
\* nothing, a line that is not JSON, a JSON object without "tools", a JSON
\* value that is not an object, or an object with a "tools" list
Silent == [kind |-> "silent", tools |-> <<>>]
Garbage == [kind |-> "garbage", tools |-> <<>>]
NoToolsKey == [kind |-> "no_tools", tools |-> <<>>]
NotAnObject == [kind |-> "not_object", tools |-> <<>>]
Unasked == [kind |-> "unasked", tools |-> <<>>]
\* bytes on stdout without a newline, and nothing after them
Partial == [kind |-> "partial", tools |-> <<>>]
Replies ==
    {Silent, Garbage,
     [kind |-> "json", tools |-> <<ToolB, ToolA>>],
     [kind |-> "json", tools |-> <<ToolAnon>>]}

\* Python's None
None == "None"

\* the value of result before connect_to_servers has been called
NoResult == [success |-> FALSE, errors |-> <<>>, errorMessage |-> "not called"]

\* t.get(key, "")
Get(t, key) == IF key \in DOMAIN t THEN t[key] ELSE ""

\* _readline_with_timeout: None when select() reports nothing to read
ReadlineWithTimeout(reply) == IF reply.kind = "silent" THEN None ELSE reply.kind

\* whether t.get exists: the entry is a JSON object
IsDict(t) == "scalar" \notin DOMAIN t

\* list_tools: [] on a timeout or on any exception (json.loads on a line
\* that is not JSON, .get on a value that is not an object), else one
\* McpTool per entry of data.get("tools", []), under the name of the
\* server passed in
ListTools(reply, server) ==
    IF ReadlineWithTimeout(reply) = None THEN <<>>
    ELSE IF reply.kind \in {"garbage", "not_object"} THEN <<>>
    ELSE IF reply.kind = "no_tools" THEN <<>>
    ELSE IF \E i \in 1..Len(reply.tools) : ~IsDict(reply.tools[i]) THEN <<>>
    ELSE [i \in 1..Len(reply.tools) |->
            [server |-> server,
             name |-> Get(reply.tools[i], "name"),
             description |-> Get(reply.tools[i], "description")]]

\* for server in mcp_servers: ... break at the first failure
AttemptsUntilFailure(servers, launch) ==
    LET failed == {i \in 1..Len(servers) : launch[i] # ""}
        stop == IF failed = {} THEN Len(servers)
                ELSE CHOOSE i \in failed : \A j \in failed : i <= j
    IN  [i \in 1..stop |-> [server |-> servers[i], error |-> launch[i]]]

\* the launch loop of connect_to_servers: every configured server is tried
Attempts(servers, launch) ==
    [i \in 1..Len(servers) |-> [server |-> servers[i], error |-> launch[i]]]

\* the servers whose _connect_to_server appended a process to self.clients
Launched(att) ==
    LET ok == SelectSeq(att, LAMBDA a : a.error = "")
    IN  [k \in 1..Len(ok) |-> ok[k].server]

\* errors.append({"serverName": server.name, "error": str(exc)})
Errors(att) ==
    LET bad == SelectSeq(att, LAMBDA a : a.error # "")
    IN  [k \in 1..Len(bad) |-> [serverName |-> bad[k].server, error |-> bad[k].error]]

RECURSIVE ListUntilSilent(_, _, _, _)
\* the listing loop, leaving at the first server that lists nothing
ListUntilSilent(k, procs, servers, replies) ==
    IF k > Min(Len(procs), Len(servers)) THEN <<>>
    ELSE IF ListTools(replies[k], servers[k]) = <<>> THEN <<>>
    ELSE ListTools(replies[k], servers[k])
            \o ListUntilSilent(k + 1, procs, servers, replies)

RECURSIVE ListAllConnectedTools(_, _, _, _)
\* list_all_connected_tools from the k-th pair of zip(self.clients, mcp_servers)
ListAllConnectedTools(k, procs, servers, replies) ==
    IF k > Min(Len(procs), Len(servers)) THEN <<>>
    ELSE ListTools(replies[k], servers[k])
            \o ListAllConnectedTools(k + 1, procs, servers, replies)

\* self.tool_cache = self.list_all_connected_tools(), whatever connected
CacheAlwaysRebuilt(success, old, listed) == listed

\* if at_least_one_success: self.tool_cache = self.list_all_connected_tools()
CacheAfter(success, old, listed) == IF success THEN listed ELSE old

\* no document was read
NoDocument == <<>>

\* no connect_to_servers call is in progress
NoCall ==
    [pc |-> "idle", i |-> 0, k |-> 0, success |-> FALSE, tools |-> <<>>,
     from |-> <<>>, seen |-> <<>>, zipped |-> <<>>, versions |-> {}]

\* no load_config call is in progress
NoReload == [pc |-> "idle", rest |-> <<>>, document |-> <<>>]

ToolInit ==
    /\ mcp_servers = <<>>
    /\ clients = <<>>
    /\ tool_cache = <<>>
    /\ origin = <<>>
    /\ result = NoResult
    /\ attempts = <<>>
    /\ tool_op = "init"
    /\ loaded = [ok |-> TRUE, document |-> NoDocument]
    /\ orphans = 0
    /\ call = NoCall
    /\ reload = NoReload

\* load_config reads the document cfg
LoadConfig(cfg) ==
    /\ reload.pc = "idle"
    /\ mcp_servers' = cfg
    /\ tool_op' = "load_config"
    /\ loaded' = [ok |-> TRUE, document |-> cfg]
    /\ UNCHANGED <<clients, tool_cache, origin, result, attempts, orphans,
                   call, reload>>
    /\ UNCHANGED <<storeVars, sessionVars, uiVars>>

\* load_config fails on the document (the file does not parse, or its top
\* level is not an object): mcp_servers.clear() has run
LoadConfigFails ==
    /\ reload.pc = "idle"
    /\ mcp_servers' = <<>>
    /\ tool_op' = "load_config"
    /\ loaded' = [ok |-> FALSE, document |-> NoDocument]
    /\ UNCHANGED <<clients, tool_cache, origin, result, attempts, orphans,
                   call, reload>>
    /\ UNCHANGED <<storeVars, sessionVars, uiVars>>

\* load_config fails inside its loop: the value under the (n+1)-th name of
\* the document cfg is not an object, server.get raises after n appends
LoadConfigFailsAt(cfg, n) ==
    /\ reload.pc = "idle"
    /\ n < Len(cfg)
    /\ mcp_servers' = SubSeq(cfg, 1, n)
    /\ tool_op' = "load_config"
    /\ loaded' = [ok |-> FALSE, document |-> cfg]
    /\ UNCHANGED <<clients, tool_cache, origin, result, attempts, orphans,
                   call, reload>>
    /\ UNCHANGED <<storeVars, sessionVars, uiVars>>

\* connect_to_servers, with the outcome of each Popen and the answer of
\* each started process to listTools
ConnectToServers(launch, replies) ==
    /\ call.pc = "idle"
    /\ orphans + Len(clients) <= MaxOrphans
    /\ orphans' = orphans + Len(clients)
    /\ tool_op' = "connect_to_servers"
    /\ LET att == Attempts(mcp_servers, launch)
           procs == Launched(att)
           success == \E i \in 1..Len(att) : att[i].error = ""
           asked == IF success THEN Min(Len(procs), Len(mcp_servers)) ELSE 0
           tools == ListAllConnectedTools(1, procs, mcp_servers, replies)
           from == ListAllConnectedTools(1, procs, procs, replies)
       IN  /\ attempts' = att
           /\ clients' = [k \in 1..Len(procs) |->
                    [server |-> procs[k],
                     reply |-> IF k <= asked THEN replies[k] ELSE Unasked]]
           /\ tool_cache' = CacheAfter(success, tool_cache, tools)
           /\ origin' = CacheAfter(success, origin,
                                   [i \in 1..Len(from) |-> from[i].server])
           /\ result' = [success |-> success,
                         errors |-> Errors(att),
                         errorMessage |->
                            IF success THEN None
                            ELSE "Failed to connect to any MCP server"]
    /\ UNCHANGED <<mcp_servers, loaded, call, reload>>
    /\ UNCHANGED <<storeVars, sessionVars, uiVars>>

\* a process the client no longer holds ends by itself (its pipes were
\* closed with the Popen object); the client terminates none
OrphanExits ==
    /\ orphans > 0
    /\ orphans' = orphans - 1
    /\ UNCHANGED <<mcp_servers, clients, tool_cache, origin, result, attempts,
                   tool_op, loaded, call, reload>>
    /\ UNCHANGED <<storeVars, sessionVars, uiVars>>

(* connect_to_servers and load_config statement by statement, the first on
   the refresh thread (McpRefreshWorker.run), the second on the caller's *)

\* print, at_least_one_success = False, errors = [], self.clients.clear()
ConnectBegins ==
    /\ call.pc = "idle"
    /\ orphans + Len(clients) <= MaxOrphans
    /\ orphans' = orphans + Len(clients)
    /\ clients' = <<>>
    /\ attempts' = <<>>
    /\ call' = [NoCall EXCEPT
                    !.pc = "launch",
                    !.versions = IF reload.pc = "idle" THEN {mcp_servers}
                                 ELSE {loaded.document, reload.document}]
    /\ UNCHANGED <<mcp_servers, tool_cache, origin, result, tool_op, loaded,
                   reload>>
    /\ UNCHANGED <<storeVars, sessionVars, uiVars>>

\* for server in mcp_servers: the list iterator hands out the entry at its
\* index, and _connect_to_server starts the process or raises
LaunchStep(outcome) ==
    /\ call.pc = "launch"
    /\ call.i < Len(mcp_servers)
    /\ LET server == mcp_servers[call.i + 1]
       IN  /\ attempts' = Append(attempts,
                                [server |-> server, error |-> outcome])
           /\ clients' = IF outcome = ""
                         THEN Append(clients,
                                     [server |-> server, reply |-> Unasked])
                         ELSE clients
           /\ call' = [call EXCEPT
                            !.i = @ + 1,
                            !.success = @ \/ outcome = "",
                            !.seen = Append(@, server)]
    /\ UNCHANGED <<mcp_servers, tool_cache, origin, result, tool_op, loaded,
                   orphans, reload>>
    /\ UNCHANGED <<storeVars, sessionVars, uiVars>>

\* the iterator's index has reached the length the list has now
LaunchLoopEnds ==
    /\ call.pc = "launch"
    /\ call.i >= Len(mcp_servers)
    /\ call' = [call EXCEPT !.pc = IF call.success THEN "list" ELSE "result"]
    /\ UNCHANGED <<mcp_servers, clients, tool_cache, origin, result, attempts,
                   tool_op, loaded, orphans, reload>>
    /\ UNCHANGED <<storeVars, sessionVars, uiVars>>

\* for client, server in zip(self.clients, mcp_servers): list_tools writes
\* the request and reads; select reports the bytes of a partial line as
\* readable and stream.readline() then waits for the newline
ListStep(reply) ==
    /\ call.pc = "list"
    /\ call.k < Len(clients)
    /\ call.k < Len(mcp_servers)
    /\ LET server == mcp_servers[call.k + 1]
           proc == clients[call.k + 1]
           tools == ListTools(reply, server)
       IN  /\ clients' = [clients EXCEPT ![call.k + 1].reply = reply]
           /\ call' = IF reply.kind = "partial"
                      THEN [call EXCEPT !.pc = "blocked",
                                        !.zipped = Append(@, server)]
                      ELSE [call EXCEPT
                                !.k = @ + 1,
                                !.zipped = Append(@, server),
                                !.tools = @ \o tools,
                                !.from = @ \o [i \in 1..Len(tools) |->
                                                    proc.server]]
    /\ UNCHANGED <<mcp_servers, tool_cache, origin, result, attempts,
                   tool_op, loaded, orphans, reload>>
    /\ UNCHANGED <<storeVars, sessionVars, uiVars>>

\* zip stops at the shorter list: self.tool_cache = the tools collected
ListLoopEnds ==
    /\ call.pc = "list"
    /\ ~(call.k < Len(clients) /\ call.k < Len(mcp_servers))
    /\ tool_cache' = call.tools
    /\ origin' = call.from
    /\ call' = [call EXCEPT !.pc = "result"]
    /\ UNCHANGED <<mcp_servers, clients, result, attempts, tool_op, loaded,
                   orphans, reload>>
    /\ UNCHANGED <<storeVars, sessionVars, uiVars>>

\* result = {...}; return result
ConnectReturns ==
    /\ call.pc = "result"
    /\ result' = [success |-> call.success,
                  errors |-> Errors(attempts),
                  errorMessage |->
                    IF call.success THEN None
                    ELSE "Failed to connect to any MCP server"]
    /\ tool_op' = "connect_to_servers"
    /\ call' = NoCall
    /\ UNCHANGED <<mcp_servers, clients, tool_cache, origin, attempts, loaded,
                   orphans, reload>>
    /\ UNCHANGED <<storeVars, sessionVars, uiVars>>

\* load_config: mcp_servers.clear(), then the file is opened and parsed
ReloadBegins(doc) ==
    /\ reload.pc = "idle"
    /\ mcp_servers' = <<>>
    /\ reload' = [pc |-> "append", rest |-> doc, document |-> doc]
    /\ call' = IF call.pc = "idle" THEN call
               ELSE [call EXCEPT !.versions = @ \cup {doc}]
    /\ UNCHANGED <<clients, tool_cache, origin, result, attempts, tool_op,
                   loaded, orphans>>
    /\ UNCHANGED <<storeVars, sessionVars, uiVars>>

\* load_config: mcp_servers.append(MCPServer(...)) for the next name
ReloadAppends ==
    /\ reload.pc = "append"
    /\ reload.rest # <<>>
    /\ mcp_servers' = Append(mcp_servers, Head(reload.rest))
    /\ reload' = [reload EXCEPT !.rest = Tail(@)]
    /\ UNCHANGED <<clients, tool_cache, origin, result, attempts, tool_op,
                   loaded, orphans, call>>
    /\ UNCHANGED <<storeVars, sessionVars, uiVars>>

\* load_config: return True
ReloadReturns ==
    /\ reload.pc = "append"
    /\ reload.rest = <<>>
    /\ loaded' = [ok |-> TRUE, document |-> reload.document]
    /\ tool_op' = "load_config"
    /\ reload' = NoReload
    /\ UNCHANGED <<mcp_servers, clients, tool_cache, origin, result, attempts,
                   orphans, call>>
    /\ UNCHANGED <<storeVars, sessionVars, uiVars>>

ToolNext ==
    \/ \E cfg \in Configs : LoadConfig(cfg)
    \/ LoadConfigFails
    \/ \E cfg \in Configs, n \in 0..MaxServers : LoadConfigFailsAt(cfg, n)
    \/ OrphanExits
    \/ \E launch \in [1..Len(mcp_servers) -> LaunchOutcomes] :
        \E replies \in [1..Cardinality({i \in 1..Len(mcp_servers) :
                                            launch[i] = ""}) -> Replies] :
            ConnectToServers(launch, replies)

----------------------------------------------------------------------------
(* Specifications *)

Init == StoreInit /\ SessionInit /\ UiInit /\ ToolInit

\* the chat store on its own
Next == StoreNext

Spec == Init /\ [][Next]_vars

\* the message operations: chats keep their default title, one content
MessageNext ==
    \/ Tick
    \/ \E c \in ChatIds : CreateChat(c, "New Chat")
    \/ \E c \in ChatIds : DeleteChat(c)
    \/ \E c \in AnyIds, r \in RolesIn : AddMessage(c, r, "x")
    \/ \E c \in AnyIds, n \in Limits : GetMessages(c, n)
    \/ ClearAll

MessageSpec == Init /\ [][MessageNext]_vars

\* the chat operations: messages of one chat, role and content
ChatNext ==
    \/ Tick
    \/ \E c \in ChatIds, t \in Titles : CreateChat(c, t)
    \/ \E c \in ChatIds : GetChat(c)
    \/ \E n \in Limits : GetRecentChats(n)
    \/ \E c \in ChatIds, t \in Titles : UpdateChatTitle(c, t)
    \/ \E c \in ChatIds : DeleteChat(c)
    \/ AddMessage(<<"a">>, "user", "x")
    \/ ClearAll

ChatSpec == Init /\ [][ChatNext]_vars

\* every operation of the store within one second, with one title and one
\* content
AppendNext ==
    \/ \E c \in ChatIds : CreateChat(c, "New Chat")
    \/ \E c \in ChatIds : GetChat(c)
    \/ GetRecentChats(MaxLimit)
    \/ \E c \in ChatIds : UpdateChatTitle(c, "T")
    \/ \E c \in ChatIds : DeleteChat(c)
    \/ \E c \in AnyIds, r \in RolesIn : AddMessage(c, r, "x")
    \/ \E c \in ChatIds : GetMessages(c, MaxLimit)
    \/ ClearAll

AppendSpec == Init /\ [][AppendNext]_vars

\* one worker object, its gateway and the caller of stop()
SessionSpec == Init /\ [][SessionNext]_vars

\* the steps of the worker's thread
ThreadStep ==
    \/ StreamRejects
    \/ StreamOpens
    \/ CheckChunk
    \/ AppendAndEmit
    \/ CheckComplete
    \/ EmitComplete
    \/ CheckError
    \/ EmitError

\* the gateway answers the pending step of the stream
GatewayStep ==
    \/ \E f \in Fragments : StreamYields(f)
    \/ StreamEnds
    \/ \E e \in GatewayErrors : StreamRaises(e)

\* the worker with a thread that is scheduled, a gateway that answers and
\* a wait() that returns when the thread has finished
StopSpec ==
    /\ Init
    /\ [][SessionNext]_vars
    /\ WF_vars(ThreadStep)
    /\ WF_vars(GatewayStep)
    /\ WF_vars(StopReturns)

\* the chat window, its workers and its store
UiSpec == Init /\ [][UiNext]_vars

RECURSIVE TotalReceived(_)
\* how many fragments the workers ws have received between them
TotalReceived(ws) ==
    IF ws = <<>> THEN 0 ELSE Len(Head(ws).received) + TotalReceived(Tail(ws))

\* the chat window with one chat id and one fragment, the workers sharing
\* the gateway's fragments between them
TurnNext ==
    \/ OpenWindow(<<"a">>)
    \/ SendMessage(<<"m">>, <<"h", "i">>)
    \/ \E t \in 1..MaxTurns :
            WorkerStep(t, IF TotalReceived(workers) < MaxChunks
                          THEN {Hel} ELSE {})
    \/ DeliverResponse
    \/ DeliverComplete
    \/ DeliverError
    \/ CompleteAgain

TurnSpec == Init /\ [][TurnNext]_vars

\* the chat window with two chats: the user sends, opens a new chat and
\* goes back and forth between the chats while the workers run
SwitchNext ==
    \/ OpenWindow(<<"a">>)
    \/ NewChat(<<"b">>)
    \/ \E c \in ChatIds : OnChatSelected(c)
    \/ SendMessage(<<"m">>, <<"h", "i">>)
    \/ \E t \in 1..MaxTurns :
            WorkerStep(t, IF TotalReceived(workers) < MaxChunks
                          THEN {Hel} ELSE {})
    \/ DeliverResponse
    \/ DeliverComplete
    \/ DeliverError
    \/ CompleteAgain

SwitchSpec == Init /\ [][SwitchNext]_vars

\* the registry and the tool client
ToolSpec == Init /\ [][ToolNext]_vars

\* the registry and the tool client, every started process either staying
\* silent or reporting the same two tools
ConnectNext ==
    \/ \E cfg \in Configs : LoadConfig(cfg)
    \/ LoadConfigFails
    \/ \E launch \in [1..Len(mcp_servers) -> LaunchOutcomes] :
        \E replies \in [1..Cardinality({i \in 1..Len(mcp_servers) :
                                            launch[i] = ""}) ->
                            {Silent, [kind |-> "json", tools |-> <<ToolB, ToolA>>]}] :
            ConnectToServers(launch, replies)

ConnectSpec == Init /\ [][ConnectNext]_vars

\* the answers to listTools that are not a list of complete entries
OddReplies ==
    {Garbage, NoToolsKey, NotAnObject,
     [kind |-> "json", tools |-> <<ToolA, NotADict>>],
     [kind |-> "json", tools |-> <<ToolNumbered>>],
     [kind |-> "json", tools |-> <<ToolAnon, ToolNoDesc>>]}

\* the registry and the tool client, the started processes answering
\* listTools with malformed or incomplete responses
DiscoveryNext ==
    \/ \E cfg \in Configs : LoadConfig(cfg)
    \/ LoadConfigFails
    \/ \E launch \in [1..Len(mcp_servers) -> LaunchOutcomes] :
        \E replies \in [1..Cardinality({i \in 1..Len(mcp_servers) :
                                            launch[i] = ""}) -> OddReplies] :
            ConnectToServers(launch, replies)

DiscoverySpec == Init /\ [][DiscoveryNext]_vars

\* what a started process does with the listTools request
StepReplies == {Silent, Partial, [kind |-> "json", tools |-> <<ToolA>>]}

\* the statements of connect_to_servers on the refresh thread
ConnectStep ==
    \/ ConnectBegins
    \/ \E outcome \in LaunchOutcomes : LaunchStep(outcome)
    \/ LaunchLoopEnds
    \/ \E reply \in StepReplies : ListStep(reply)
    \/ ListLoopEnds
    \/ ConnectReturns

\* the documents reloaded: the first servers of one list, and another server
ReloadDocs ==
    {SubSeq(<<"s1", "s2", "s3">>, 1, n) : n \in 0..MaxServers} \cup {<<"s3">>}

\* the statements of load_config on the caller's thread
ReloadStep ==
    \/ \E doc \in ReloadDocs : ReloadBegins(doc)
    \/ ReloadAppends
    \/ ReloadReturns

RefreshNext == ConnectStep \/ ReloadStep

\* the refresh thread and the caller's thread interleaved statement by
\* statement; the refresh thread is scheduled whenever it can take a step
RefreshSpec == Init /\ [][RefreshNext]_vars /\ WF_vars(ConnectStep)

----------------------------------------------------------------------------
(* Properties of ChatHistory, checked under Spec *)

\* the closed set of roles the store accepts
ClosedRoles == {"user", "assistant", "tool"}

\* a step of Spec other than Tick is one ChatHistory call, recorded in last'
IsCall(op) == now' = now /\ last'.op = op

\* the message with the greatest id among the rows of a chat
NewestOf(chat_id) ==
    CHOOSE m \in MessagesOf(chat_id) : \A x \in MessagesOf(chat_id) : x.id <= m.id

\* C1: after delete_chat(id) returns, no Message with that chat id remains
\* in the store, so get_messages(id) can only return the empty sequence
\* (stated for the calls that found the Chat and deleted it).
C1_DeleteCascades ==
    (last.op = "delete_chat" /\ last.ok) =>
        /\ MessagesOf(last.chat_id) = {}
        /\ \A n \in Limits : MessagesResults(last.chat_id, n) = {<<>>}

\* C2 as stated: add_message with a role outside the closed set fails with
\* the invalid-role error and leaves chat_messages as it was, for every
\* chat id and content.
C2_InvalidRoleAlways ==
    [][(IsCall("add_message") /\ last'.role \notin ClosedRoles) =>
            (last'.err = "InvalidRole" /\ chat_messages' = chat_messages)]_vars

\* C2 amended: add_message with a role outside the closed set always fails
\* and leaves chat_messages as it was; the error is the invalid-role error
\* when the chat id is not blank, and the invalid-chat-id error when it is.
C2_InvalidRoleRejected ==
    [][(IsCall("add_message") /\ last'.role \notin ClosedRoles) =>
            /\ chat_messages' = chat_messages
            /\ next_id' = next_id
            /\ ~last'.ok
            /\ last'.err = IF Strip(last'.chat_id) = <<>>
                           THEN "InvalidChatId" ELSE "InvalidRole"]_vars

\* C2 witness: a call with role "system" and a real chat id was refused
\* with the invalid-role error while the table held rows.
C2_Witness ==
    /\ last.op = "add_message"
    /\ last.role = "system"
    /\ last.chat_id \in ChatIds
    /\ last.err = "InvalidRole"
    /\ chat_messages # <<>>

\* C3: every successful add_message names a Chat that exists at insertion
\* time; for a non-blank id without a Chat the call fails.
C3_InsertNeedsChat ==
    (last.op = "add_message" /\ last.err = "") => ChatExists(last.chat_id)

\* C4: get_messages(chat_id, limit), for a non-blank id whose messages
\* were only ever added, returns rows of that chat in non-decreasing
\* timestamp order, min(limit, successful add_message calls) of them.
C4_GetMessagesOrderedAndCounted ==
    (last.op = "get_messages" /\ last.err = "" /\ last.chat_id \notin purged) =>
        /\ \A i, j \in 1..Len(last.rows) :
                i < j => last.rows[i].timestamp <= last.rows[j].timestamp
        /\ \A i \in 1..Len(last.rows) : last.rows[i].chat_id = last.chat_id
        /\ Len(last.rows) = Min(last.limit, added[last.chat_id])

\* C4 witness: a chat with two messages of different seconds was read with
\* limit 2 (both returned) while the other chat had a message too.
C4_Witness ==
    /\ last.op = "get_messages"
    /\ last.limit = 2
    /\ Len(last.rows) = 2
    /\ last.rows[1].timestamp < last.rows[2].timestamp
    /\ added[last.chat_id] = 2
    /\ last.chat_id \notin purged

\* C5: get_recent_chats(limit) returns at most limit entries, and they are
\* the most recently created chats, in creation-time descending order.
C5_RecentChatsLimitedAndOrdered ==
    last.op = "get_recent_chats" =>
        /\ Len(last.rows) <= last.limit
        /\ Len(last.rows) = Min(last.limit, Cardinality(chats))
        /\ \A i, j \in 1..Len(last.rows) :
                i < j => /\ last.rows[i].created_at >= last.rows[j].created_at
                         /\ last.rows[i].id # last.rows[j].id
        /\ \A i \in 1..Len(last.rows) :
                /\ \E c \in chats : /\ c.id = last.rows[i].id
                                    /\ c.created_at = last.rows[i].created_at
                                    /\ c.title = last.rows[i].title
                /\ \A c \in chats :
                        (\A k \in 1..Len(last.rows) : last.rows[k].id # c.id)
                            => c.created_at <= last.rows[i].created_at

\* C5 witness: two chats created in different seconds, listed with limit
\* 1: the one entry is the later chat.
C5_Witness ==
    /\ last.op = "get_recent_chats"
    /\ last.limit = 1
    /\ Len(last.rows) = 1
    /\ \E c \in chats : c.created_at < last.rows[1].created_at

\* C6: each entry of get_recent_chats pairs its chat with the content of
\* the chat's most recently inserted Message, or with nothing when the
\* chat has no messages, also for messages inserted in the same second.
C6_LastMessageIsNewest ==
    last.op = "get_recent_chats" =>
        \A i \in 1..Len(last.rows) :
            last.rows[i].last_message =
                IF MessagesOf(last.rows[i].id) = {} THEN NULL
                ELSE NewestOf(last.rows[i].id).content

\* C7: create_chat with an id the table holds fails with the duplicate-id
\* error and leaves every Chat and Message as it was; with a fresh id it
\* adds exactly one Chat, with that id and title.
C7_CreateChatDuplicateOrFresh ==
    [][IsCall("create_chat") =>
            IF \E c \in chats : c.id = last'.chat_id
            THEN /\ last'.err = "IntegrityError"
                 /\ chats' = chats
                 /\ chat_messages' = chat_messages
            ELSE /\ last'.err = ""
                 /\ chat_messages' = chat_messages
                 /\ \E t \in Titles :
                        chats' = chats \cup {[id |-> last'.chat_id, title |-> t,
                                              created_at |-> now]}
                 /\ Cardinality(chats') = Cardinality(chats) + 1]_vars

\* C7 witness: a duplicate create_chat was refused while the chat, with a
\* title set at its creation, and a message of it were in the store.
C7_Witness ==
    /\ last.op = "create_chat"
    /\ last.err = "IntegrityError"
    /\ \E c \in chats : c.id = last.chat_id /\ c.title = "T"
    /\ MessagesOf(last.chat_id) # {}

----------------------------------------------------------------------------
(* Properties of OllamaWorker, checked under SessionSpec *)

\* the positions in emitted that hold a given signal
Emissions(sig) == {i \in 1..Len(emitted) : emitted[i].sig = sig}

\* C8: a run whose stream ends without error and without cancellation
\* emits exactly one "complete" notification, as its last notification,
\* and the payload is the concatenation of the received fragments in
\* arrival order (stated for the first run of a worker).
C8_CompleteOnceWithConcatenation ==
    (pc = "done" /\ runs = 1 /\ exc = NoExc /\ is_running) =>
        /\ Cardinality(Emissions("response_complete")) = 1
        /\ emitted[Len(emitted)] = Signal("response_complete", Concat(received))
        /\ Emissions("error_occurred") = {}

\* C8 witness: the stream ["Hel", "lo"] ended and "Hello" was emitted as
\* the complete notification.
C8_Witness ==
    /\ pc = "done"
    /\ runs = 1
    /\ is_running
    /\ received = <<Hel, Lo>>
    /\ emitted[Len(emitted)] =
            Signal("response_complete", <<"H", "e", "l", "l", "o">>)

\* C9: the "complete" notification fires at most once per worker object,
\* however many times its run step is executed.
C9_CompleteAtMostOnce ==
    Cardinality(Emissions("response_complete")) <= 1

\* C10: once stop() has cleared the liveness flag, no "complete" and no
\* "error" notification is emitted, under every interleaving of the
\* caller with the worker's thread.
C10_NoNotificationAfterStop ==
    [][(stop_pc # "none" /\ emitted' # emitted) =>
            emitted'[Len(emitted')].sig = "response_received"]_vars

\* the "updated" notifications among the emitted signals, in order
Updates == SelectSeq(emitted, LAMBDA s : s.sig = "response_received")

IsPrefix(a, b) == Len(a) <= Len(b) /\ SubSeq(b, 1, Len(a)) = a

\* C14: a worker constructed with an empty model name or an empty message
\* list fails in run() with the invalid-request error before any chat
\* request is sent to the gateway: no fragment is received, no "updated"
\* and no "complete" notification is emitted, and the only notification
\* it can emit is the error with the invalid-request message.
C14_InvalidRequestFailsFast ==
    (pc # "unborn" /\ (model = <<>> \/ messages = <<>>)) =>
        /\ requests = 0
        /\ received = <<>>
        /\ Emissions("response_received") = {}
        /\ Emissions("response_complete") = {}
        /\ \A i \in 1..Len(emitted) :
                emitted[i] = Signal("error_occurred", RequiredMsg)
        /\ pc \in {"except", "error", "done"} => exc = RequiredMsg
        /\ (pc = "done" /\ is_running) => Emissions("error_occurred") # {}

\* C14 witness: a worker with a model name and an empty message list has
\* run and emitted the invalid-request error.
C14_Witness ==
    /\ model = <<"m">>
    /\ messages = <<>>
    /\ pc = "done"
    /\ emitted = <<Signal("error_occurred", RequiredMsg)>>

\* C15: the k-th "updated" notification of a worker carries the
\* concatenation of the first k fragments the gateway yielded to it, so
\* every payload is a prefix of every later payload.
C15_UpdatesCumulative ==
    \A k \in 1..Len(Updates) :
        /\ Updates[k].payload = Concat(SubSeq(received, 1, k))
        /\ \A j \in 1..k : IsPrefix(Updates[j].payload, Updates[k].payload)

\* C15 witness: the fragments "Hel" and "lo" produced the payloads "Hel"
\* and "Hello".
C15_Witness ==
    /\ Len(Updates) = 2
    /\ Updates[1].payload = Hel
    /\ Updates[2].payload = <<"H", "e", "l", "l", "o">>

----------------------------------------------------------------------------
(* Properties of a user turn, checked under UiSpec *)

\* the signals worker w has emitted, in order
SignalsOf(w) == SelectSeq(posted, LAMBDA s : s.w = w)

\* the positions in commits of the rows written for signals of worker w
CommitsOf(w) == {i \in 1..Len(commits) : commits[i].w = w}

\* the stored message with a given id
RowWithId(id) == CHOOSE r \in Range(chat_messages) : r.id = id

\* a response_complete of worker w has been delivered to its slot
CompleteHandled(w) ==
    \E i \in 1..handled :
        posted[i].w = w /\ posted[i].sig = "response_complete"

\* a worker whose gateway raised has emitted the error's message as its one
\* error notification, after its updates, with no complete notification,
\* and no assistant message has been written for it
ErrorTurnsEndInOneError ==
    \A w \in 1..Len(workers) :
        (workers[w].pc = "done" /\ workers[w].exc \in GatewayErrors) =>
            LET sigs == SignalsOf(w)
            IN  /\ sigs # <<>>
                /\ sigs[Len(sigs)] =
                        [w |-> w, sig |-> "error_occurred",
                         payload |-> workers[w].exc]
                /\ \A i \in 1..(Len(sigs) - 1) :
                        sigs[i].sig = "response_received"
                /\ CommitsOf(w) = {}

\* C11: a session whose gateway raises while the liveness flag is set
\* emits exactly one error notification, carrying the error's message,
\* and no complete notification; no assistant message is written for it,
\* and handling the error leaves the stored messages as they were.
C11_GatewayErrorWritesNothing ==
    [][/\ ErrorTurnsEndInOneError'
       /\ (handled' = handled + 1 /\ posted[handled + 1].sig = "error_occurred")
            => chat_messages' = chat_messages]_vars

\* C11 witness: a worker received a fragment, then its gateway raised, and
\* the window has handled the error.
C11_Witness ==
    /\ handled = Len(posted)
    /\ handled > 0
    /\ posted[handled].sig = "error_occurred"
    /\ workers[posted[handled].w].exc \in GatewayErrors
    /\ workers[posted[handled].w].received # <<>>
    /\ chat_messages # <<>>

\* C12: for every turn whose complete notification has been handled, the
\* commit logic has written exactly one assistant message, whose content
\* is the notification's payload, however often the handler was invoked.
C12_OneCommitPerTurn ==
    \A w \in 1..Len(workers) :
        CompleteHandled(w) =>
            /\ Cardinality(CommitsOf(w)) = 1
            /\ \A i \in CommitsOf(w) :
                /\ RowWithId(commits[i].id).role = "assistant"
                /\ RowWithId(commits[i].id).content = workers[w].buffer

\* C13: a session whose stream yields no fragment and then ends emits
\* the complete notification with the empty buffer and no error, and once
\* that notification is handled one assistant message with empty content
\* has been committed for it.
C13_EmptyStreamCommitsEmpty ==
    \A w \in 1..Len(workers) :
        (workers[w].pc = "done" /\ workers[w].received = <<>>
                /\ workers[w].exc = NoExc) =>
            /\ SignalsOf(w) =
                    <<[w |-> w, sig |-> "response_complete", payload |-> <<>>]>>
            /\ CompleteHandled(w) =>
                /\ Cardinality(CommitsOf(w)) = 1
                /\ \A i \in CommitsOf(w) :
                        RowWithId(commits[i].id).content = <<>>

----------------------------------------------------------------------------
(* Properties of MCPClient, checked under ToolSpec *)

\* the names of the servers whose launch failed in the last call
FailedNames == {attempts[i].server : i \in {j \in 1..Len(attempts) : attempts[j].error # ""}}

\* the tools the k-th process reported, as descriptors of its own server
ReportedBy(k) ==
    LET r == clients[k].reply
    IN  IF r.kind = "json"
        THEN [i \in 1..Len(r.tools) |->
                [server |-> clients[k].server,
                 name |-> IF "name" \in DOMAIN r.tools[i]
                          THEN r.tools[i].name ELSE "",
                 description |-> r.tools[i].description]]
        ELSE <<>>

RECURSIVE ReportedFrom(_)
\* the tools of the processes from the k-th on, process by process
ReportedFrom(k) ==
    IF k > Len(clients) THEN <<>> ELSE ReportedBy(k) \o ReportedFrom(k + 1)

\* the tool cache with each descriptor under the server that reported it
CacheByOrigin ==
    [i \in 1..Len(tool_cache) |->
        [server |-> origin[i], name |-> tool_cache[i].name,
         description |-> tool_cache[i].description]]

\* C16: connect_to_servers tries every configured server, also after a
\* failed launch; success is true iff a process was started, and errors
\* holds one (server name, message) entry per failed launch, in
\* configuration order.
C16_EveryServerTriedOneErrorPerFailure ==
    [][tool_op' = "connect_to_servers" =>
        /\ Len(attempts') = Len(mcp_servers)
        /\ \A i \in 1..Len(mcp_servers) : attempts'[i].server = mcp_servers[i]
        /\ result'.success = (\E i \in 1..Len(attempts') : attempts'[i].error = "")
        /\ result'.success = (clients' # <<>>)
        /\ LET bad == SelectSeq(attempts', LAMBDA a : a.error # "")
           IN  /\ Len(result'.errors) = Len(bad)
               /\ \A k \in 1..Len(bad) :
                    /\ result'.errors[k].serverName = bad[k].server
                    /\ result'.errors[k].error = bad[k].error]_vars

\* C16 witness: the first of two servers failed to launch, the second was
\* started: success with one error entry.
C16_Witness ==
    /\ tool_op = "connect_to_servers"
    /\ Len(attempts) = 2
    /\ attempts[1].error # ""
    /\ attempts[2].error = ""
    /\ result.success
    /\ Len(result.errors) = 1

\* C17: a connect_to_servers call in which no server connects returns
\* success=false with the aggregate error message and leaves the tool
\* cache exactly as it was before the call.
C17_NoConnectKeepsCache ==
    [][(tool_op' = "connect_to_servers" /\ clients' = <<>>) =>
        /\ ~result'.success
        /\ result'.errorMessage = "Failed to connect to any MCP server"
        /\ tool_cache' = tool_cache]_vars

\* C17 witness: every launch of the last call failed while the cache held
\* the tools of an earlier cycle.
C17_Witness ==
    /\ tool_op = "connect_to_servers"
    /\ attempts # <<>>
    /\ ~result.success
    /\ clients = <<>>
    /\ tool_cache # <<>>

\* C18: after a connect_to_servers call in which a server connected, the
\* tool cache is the concatenation, over the servers connected in this
\* call in configuration order, of each server's tools in the order it
\* reported them, and nothing else.
C18_CacheIsConcatenationOfConnected ==
    (tool_op = "connect_to_servers" /\ result.success) =>
        tool_cache = ReportedFrom(1)

\* C19: after a call in which some servers failed to launch and others
\* connected, every descriptor carries the name of the server whose
\* process reported it, every connected server has been queried, and no
\* descriptor carries the name of a server that failed to launch.
C19_CacheOnlyFromSurvivors ==
    (tool_op = "connect_to_servers" /\ result.success /\ FailedNames # {}) =>
        /\ \A i \in 1..Len(tool_cache) :
            /\ tool_cache[i].server = origin[i]
            /\ tool_cache[i].server \notin FailedNames
        /\ \A k \in 1..Len(clients) : clients[k].reply.kind # "unasked"

\* C20: a connected server that writes no line within the read bound
\* counts as connected (success is true), is not in errors, adds nothing
\* to the cache, and the tools the other processes reported are all there,
\* in order.
C20_SilentServerListsNothing ==
    (tool_op = "connect_to_servers"
            /\ \E k \in 1..Len(clients) : clients[k].reply.kind = "silent") =>
        /\ result.success
        /\ \A k \in 1..Len(clients) :
            clients[k].reply.kind = "silent" =>
                \A e \in 1..Len(result.errors) :
                    result.errors[e].serverName # clients[k].server
        /\ CacheByOrigin = ReportedFrom(1)

\* C20 witness: of two connected servers the first stayed silent and the
\* second reported two tools, which are the cache.
C20_Witness ==
    /\ tool_op = "connect_to_servers"
    /\ Len(clients) = 2
    /\ clients[1].reply.kind = "silent"
    /\ clients[2].reply.kind = "json"
    /\ Len(tool_cache) = 2
    /\ result.errors = <<>>

\* an entry of a "tools" list that is an object with strings in its fields
WellFormedEntry(e) ==
    /\ "scalar" \notin DOMAIN e
    /\ \A f \in DOMAIN e : e[f] \notin NonStrings

\* a response that carries a list of well-formed entries
WellFormedReply(r) ==
    /\ r.kind = "json"
    /\ \A i \in 1..Len(r.tools) : WellFormedEntry(r.tools[i])

\* the descriptors the cache holds for the tools a server's process reported
CachedFrom(server) == SelectSeq(CacheByOrigin, LAMBDA d : d.server = server)

\* C21: a malformed discovery response (not JSON, a JSON value without a
\* tools list, entries of the wrong shape) gives that server no tools and
\* no entry in errors; a well-formed response gives one descriptor per
\* entry, a missing name or description being the empty string.
C21_MalformedListsNothing ==
    (tool_op = "connect_to_servers" /\ result.success) =>
        \A k \in 1..Len(clients) :
            /\ \A e \in 1..Len(result.errors) :
                    result.errors[e].serverName # clients[k].server
            /\ CachedFrom(clients[k].server) =
                IF WellFormedReply(clients[k].reply)
                THEN [i \in 1..Len(clients[k].reply.tools) |->
                        LET t == clients[k].reply.tools[i]
                        IN  [server |-> clients[k].server,
                             name |-> IF "name" \in DOMAIN t
                                      THEN t.name ELSE "",
                             description |-> IF "description" \in DOMAIN t
                                             THEN t.description ELSE ""]]
                ELSE <<>>

\* C26: messages are append-only. add_message, update_chat_title,
\* create_chat and the reads leave every stored message as it was and in
\* its place; a stored message goes only in a delete_chat of its own chat
\* or in clear_all.
C26_MessagesAppendOnly ==
    [][/\ last'.op \notin {"delete_chat", "clear_all"} =>
            IsPrefix(chat_messages, chat_messages')
       /\ \A i \in 1..Len(chat_messages) :
            \/ chat_messages[i] \in Range(chat_messages')
            \/ last'.op = "clear_all"
            \/ last'.op = "delete_chat" /\ last'.chat_id = chat_messages[i].chat_id
      ]_vars

\* a message was added to a table that held one, and a title was updated
\* over a table that holds messages
C26_Witness ==
    /\ Len(chat_messages) = MaxMsgs
    /\ last.op = "update_chat_title"
    /\ last.ok

\* C24: after stop() has cleared the flag, the thread ends and stop()
\* returns, given a gateway that answers; the run that was stopped takes at
\* most one more fragment from the gateway, and the buffer does not change
\* once the thread has seen the cleared flag.
C24_StopEndsTheTask ==
    /\ (stop_pc = "wait") ~> (stop_pc = "returned")
    /\ []((stop_pc # "none" /\ runs = stopped_at.run) =>
            Len(received) <= stopped_at.received + 1)
    /\ [][(~is_running /\ pc \in {"final", "done"}) => buffer' = buffer]_vars

\* stop() returned after a run that took one more fragment and appended none
C24_Witness ==
    /\ stop_pc = "returned"
    /\ pc = "done"
    /\ runs = stopped_at.run
    /\ Len(received) = stopped_at.received + 1
    /\ buffer = stopped_at.buffer

\* C29: a load_config that returns False leaves the registry as it was
\* before the call; one that returns True leaves the servers of the
\* document, one entry per name, in document order.
C29_FailedLoadKeepsRegistry ==
    [][tool_op' = "load_config" =>
            IF loaded'.ok
            THEN /\ mcp_servers' = loaded'.document
                 /\ \A i, j \in 1..Len(mcp_servers') :
                        mcp_servers'[i] = mcp_servers'[j] => i = j
            ELSE mcp_servers' = mcp_servers]_vars

\* C28: after a connect cycle every process the client has started and not
\* terminated is in its connection list, and the started processes are no
\* more than the configured servers.
C28_LiveProcessesHeld ==
    tool_op = "connect_to_servers" =>
        /\ orphans = 0
        /\ orphans + Len(clients) <= Len(mcp_servers)

\* C22: a load_config that runs while connect_to_servers is in progress is
\* never seen as a partial list: the launch loop has gone through a
\* complete list, the one from before the reload or the one it loads, and
\* the listing loop has paired the processes with the entries of one
\* complete list.
C22_ReloadNeverSeenPartial ==
    call.pc = "result" =>
        /\ call.seen \in call.versions
        /\ call.success =>
            \E v \in call.versions :
                call.zipped = SubSeq(v, 1, Min(Len(clients), Len(v)))

\* C25: every discovery read is bounded, so a connect_to_servers call that
\* has begun always returns its result, whatever the processes write.
C25_ConnectAlwaysReturns ==
    (call.pc # "idle") ~> (call.pc = "idle")

\* the turns whose worker has not finished run()
ActiveTurns == {t \in 1..Len(workers) : workers[t].pc # "done"}

\* C23: at most one streaming session is active at a time: send_message is
\* not run again before the worker of the previous turn has finished, so
\* the assistant rows are committed in the order of their turns, each
\* before the next turn's user row.
C23_OneActiveSession ==
    /\ Cardinality(ActiveTurns) <= 1
    /\ \A i, j \in 1..Len(commits) :
            i < j => commits[i].w < commits[j].w

\* C27: the assistant message committed for a turn is in the chat to which
\* that turn's user message was written, whatever chat the window shows
\* when the worker completes.
C27_CommitGoesToTurnsChat ==
    \A i \in 1..Len(commits) :
        RowWithId(commits[i].id).chat_id = turns[commits[i].w]

====
